---- MODULE Spec2Model ----
(***************************************************************************)
(* Model of the Instek bench power supply driver (package instek).         *)
(*                                                                         *)
(* The state is that of one Supply object (src/instek/__init__.py): the    *)
(* cached tracking mode, output and beep flags and the cached setpoints of *)
(* channels 1 and 2.  The operations are Supply.set, in the definition     *)
(* that the class keeps (the second "def set", lines 393-534, rebinds the  *)
(* name bound by the draft at lines 331-391), and Supply.zero.             *)
(*                                                                         *)
(* Reading of the source: "args" in set is the list of positional          *)
(* arguments of the call; command / set_voltage / set_current are one      *)
(* line exchange each (OUTn, BEEPn, TRACKn, VSETn:v, ISETn:v) and are      *)
(* recorded, in order, in "sent".  Quantities are kept in thousandths of a *)
(* volt or ampere, the three decimals that go over the wire.               *)
(*                                                                         *)
(* Further specifications on the same variables: SpecFacade (the exchanges *)
(* with replies of GPDX303S and Supply), SpecConstruct (the constructors   *)
(* and get_devices), SpecPort and FairSpecPort (the serial port inside     *)
(* __communicate) and SpecUnits (the unit algebra of types/__init__.py).   *)
(***************************************************************************)
EXTENDS Integers, Sequences, FiniteSets, TLC

VARIABLES tracking, output, beep,
          channel_1_voltage, channel_2_voltage,
          channel_1_current, channel_2_current,
          op, args, sent, result, pre,
          gpd, response, returned, built, calc,
          port, pc

cache == <<tracking, output, beep,
           channel_1_voltage, channel_2_voltage,
           channel_1_current, channel_2_current>>

vars == <<tracking, output, beep,
          channel_1_voltage, channel_2_voltage,
          channel_1_current, channel_2_current,
          op, args, sent, result, pre,
          gpd, response, returned, built, calc,
          port, pc>>

\* what the operations of Supply.set and Supply.zero never touch: the
\* GPDX303S object, the replies of the instrument, the value a call returns,
\* the outcome of a construction, the unit calculator, and the serial port
\* with the place of the caller in an exchange
beside == <<gpd, response, returned, built, calc, port, pc>>

(***************************************************************************)
(* Bounds of the model.                                                    *)
(***************************************************************************)
\* the longest positional argument list handed to set by the environment
MaxArgs == 2

\* the most calls an operation makes on the serial port: open() is tried
\* again no further than this
MaxCalls == 10

(***************************************************************************)
(* Quantities.                                                             *)
(***************************************************************************)
\* thousandths: UnitBase.__str__ rounds to three decimals
Milli == 1000

Voltage(n) == n * Milli

Current(n) == n * Milli

\* Python's None for an absent quantity or index
None == -1

\* UnitBase.__bool__ : bool(self.__value); None is falsy too
Truthy(x) == x # None /\ x # 0

\* "a and a > b" on quantities
Gt(a, b) == a > b

\* voltage1 / 2, current1 / 2
Half(x) == x \div 2

(***************************************************************************)
(* Enumerations used by Supply.                                            *)
(***************************************************************************)
Independent == "Independent"

Series == "Series"

Parallel == "Parallel"

TrackingModes == {Independent, Series, Parallel}

On == "On"

Off == "Off"

\* tracking.value in f"TRACK{tracking.value}"
TrackingValue(t) == CASE t = Independent -> 0 [] t = Series -> 1 [] t = Parallel -> 2

\* output.value / beep.value in f"OUT{...}" and f"BEEP{...}"
SwitchValue(s) == IF s = On THEN 1 ELSE 0

(***************************************************************************)
(* Positional arguments: each is an instance of one of the classes that    *)
(* set filters on with isinstance.                                         *)
(***************************************************************************)
Arg(k, v) == [k |-> k, v |-> v]

ChannelOne == Arg("Channel", 1)

ChannelTwo == Arg("Channel", 2)

\* one line exchange, as recorded in sent; ch = 0 for commands without channel
Cmd(c, ch, v) == [cmd |-> c, ch |-> ch, val |-> v]

(***************************************************************************)
(* Python list helpers (indices are Python's: the first element is 0).     *)
(***************************************************************************)
\* [arg for arg in args if isinstance(arg, K)]
Instances(as, k) == SelectSeq(as, LAMBDA a : a.k = k)

\* x in as
Contains(as, x) == \E i \in 1..Len(as) : as[i] = x

\* as.index(x)
IndexOf(as, x) == (CHOOSE i \in 1..Len(as) : as[i] = x /\ \A j \in 1..(i - 1) : as[j] # x) - 1

\* as[lo:hi]
Slice(as, lo, hi) == SubSeq(as, lo + 1, hi)

\* qs[0] if any(qs) else None : any() asks for a truthy element
FirstIfAny(qs) == IF \E i \in 1..Len(qs) : Truthy(qs[i].v) THEN qs[1].v ELSE None

\* qs[n] if len(qs) > n else None
NthIfLen(qs, n) == IF Len(qs) > n THEN qs[n + 1].v ELSE None

(***************************************************************************)
(* Supply.set, lines 399-447: the request read off the argument list.      *)
(***************************************************************************)
\* lines 402-403
ParseTracking(as, cur) == IF Instances(as, "Tracking") # <<>> THEN Instances(as, "Tracking")[1].v ELSE cur

\* lines 407-408
ChannelIndex(as, ch) == IF Contains(Instances(as, "Channel"), ch) THEN IndexOf(as, ch) ELSE None

\* lines 410-412 and 426-428: "other if other and other > this else len(args)"
EndIndex(as, this, other) == IF Truthy(other) /\ other > this THEN other ELSE Len(as)

\* lines 409-423 and 425-439: the quantity of class k named after channel ch
ChannelQuantity(as, ch, otherCh, k) ==
    LET this == ChannelIndex(as, ch)
        other == ChannelIndex(as, otherCh)
    IN  IF this # None
        THEN FirstIfAny(Instances(Slice(as, this + 1, EndIndex(as, this, other)), k))
        ELSE None

\* lines 405-447
ParseArgs(as, cur) ==
    IF Instances(as, "Channel") # <<>>
    THEN [tracking |-> ParseTracking(as, cur),
          voltage1 |-> ChannelQuantity(as, ChannelOne, ChannelTwo, "Voltage"),
          current1 |-> ChannelQuantity(as, ChannelOne, ChannelTwo, "Current"),
          voltage2 |-> ChannelQuantity(as, ChannelTwo, ChannelOne, "Voltage"),
          current2 |-> ChannelQuantity(as, ChannelTwo, ChannelOne, "Current")]
    ELSE [tracking |-> ParseTracking(as, cur),
          voltage1 |-> NthIfLen(Instances(as, "Voltage"), 0),
          voltage2 |-> NthIfLen(Instances(as, "Voltage"), 1),
          current1 |-> NthIfLen(Instances(as, "Current"), 0),
          current2 |-> NthIfLen(Instances(as, "Current"), 1)]

\* lines 482-483
ParseOutput(as) == IF Instances(as, "Output") # <<>> THEN Instances(as, "Output")[1].v ELSE "None"

\* line 531
ParseBeep(as) == IF Instances(as, "Beep") # <<>> THEN Instances(as, "Beep")[1].v ELSE "None"

(***************************************************************************)
(* Supply.set, lines 449-480: the checks made before anything is sent.     *)
(* The value is the message of the exception raised, or "ok".              *)
(***************************************************************************)
IndependentVoltageLimit == "Voltage limit is 30V in independent mode"

IndependentCurrentLimit == "Current limit is 3A in independent mode"

SeriesVoltageLimit == "Voltage limit is 60V in series mode"

SeriesVoltage2 == "Cannot set voltage for channel 2 in series mode"

SeriesCurrent2 == "Current for channel 2 is always 3A in series mode"

ParallelVoltageLimit == "Voltage limit is 30V in parallel mode"

ParallelVoltage2 == "Cannot set voltage for channel 2 in parallel mode"

ParallelCurrentLimit == "Current limit is 6A in parallel mode"

ParallelCurrent2 == "Cannot set current for channel 2 in parallel mode"

\* the independent-mode checks with channel 2 left out
ValidateIndependentChannel1(p) ==
    IF Truthy(p.voltage1) /\ Gt(p.voltage1, Voltage(30)) THEN IndependentVoltageLimit
    ELSE IF Truthy(p.current1) /\ Gt(p.current1, Current(3)) THEN IndependentCurrentLimit
    ELSE "ok"

\* lines 450-464
ValidateIndependent(p) ==
    IF (Truthy(p.voltage1) /\ Gt(p.voltage1, Voltage(30))) \/ (Truthy(p.voltage2) /\ Gt(p.voltage2, Voltage(30)))
    THEN IndependentVoltageLimit
    ELSE IF (Truthy(p.current1) /\ Gt(p.current1, Current(3))) \/ (Truthy(p.current2) /\ Gt(p.current2, Current(3)))
    THEN IndependentCurrentLimit
    ELSE "ok"

\* lines 465-471
ValidateSeries(p) ==
    IF Truthy(p.voltage1) /\ Gt(p.voltage1, Voltage(60)) THEN SeriesVoltageLimit
    ELSE IF Truthy(p.voltage2) THEN SeriesVoltage2
    ELSE IF Truthy(p.current2) THEN SeriesCurrent2
    ELSE "ok"

\* lines 472-480
ValidateParallel(p) ==
    IF Truthy(p.voltage1) /\ Gt(p.voltage1, Voltage(30)) THEN ParallelVoltageLimit
    ELSE IF Truthy(p.voltage2) THEN ParallelVoltage2
    ELSE IF Truthy(p.current1) /\ Gt(p.current1, Current(6)) THEN ParallelCurrentLimit
    ELSE IF Truthy(p.current2) THEN ParallelCurrent2
    ELSE "ok"

\* lines 449-480
Validate(p) ==
    CASE p.tracking = Independent -> ValidateIndependent(p)
      [] p.tracking = Series -> ValidateSeries(p)
      [] p.tracking = Parallel -> ValidateParallel(p)

(***************************************************************************)
(* Supply.set, lines 485-534: the exchanges and the cache updates.  s is   *)
(* the object's cache together with the exchanges sent so far by the call. *)
(***************************************************************************)
\* command(...), set_voltage(...), set_current(...): one exchange
Send(s, c, ch, v) == [s EXCEPT !.sent = Append(@, Cmd(c, ch, v))]

\* a mode change that leaves the cached output flag alone
ChangeTrackingKeepOutput(s, t) ==
    IF t # s.tracking
    THEN [Send(s, "TRACK", 0, TrackingValue(t)) EXCEPT !.tracking = t]
    ELSE s

\* lines 485-488
ChangeTracking(s, t) ==
    IF t # s.tracking
    THEN [Send(s, "TRACK", 0, TrackingValue(t)) EXCEPT !.tracking = t, !.output = Off]
    ELSE s

\* lines 490-492 (o = Off) and 527-529 (o = On); an Output member is truthy
SwitchOutput(s, requested, o) ==
    IF requested # "None" /\ requested # s.output /\ requested = o
    THEN [Send(s, "OUT", 0, SwitchValue(requested)) EXCEPT !.output = requested]
    ELSE s

\* a channel-1 voltage write that does not look at the cache
SetVoltage1Always(s, v) ==
    IF Truthy(v)
    THEN [Send(s, "VSET", 1, v) EXCEPT !.channel_1_voltage = v]
    ELSE s

\* lines 496-498, 520-522: if voltage1 and cached != voltage1
SetVoltage1(s, v) ==
    IF Truthy(v) /\ s.channel_1_voltage # v
    THEN [Send(s, "VSET", 1, v) EXCEPT !.channel_1_voltage = v]
    ELSE s

\* lines 499-501
SetVoltage2(s, v) ==
    IF Truthy(v) /\ s.channel_2_voltage # v
    THEN [Send(s, "VSET", 2, v) EXCEPT !.channel_2_voltage = v]
    ELSE s

\* lines 502-504, 513-515
SetCurrent1(s, c) ==
    IF Truthy(c) /\ s.channel_1_current # c
    THEN [Send(s, "ISET", 1, c) EXCEPT !.channel_1_current = c]
    ELSE s

\* lines 505-507
SetCurrent2(s, c) ==
    IF Truthy(c) /\ s.channel_2_current # c
    THEN [Send(s, "ISET", 2, c) EXCEPT !.channel_2_current = c]
    ELSE s

\* a series voltage write that forgets to halve
SetSeriesVoltageWhole(s, v) ==
    IF Truthy(v) /\ s.channel_1_voltage # v
    THEN [Send(s, "VSET", 1, v) EXCEPT !.channel_1_voltage = v, !.channel_2_voltage = v]
    ELSE s

\* a series voltage write that looks for the whole voltage in the cache,
\* as the draft at line 373 does
SetSeriesVoltageDraft(s, v) ==
    IF Truthy(v) /\ s.channel_1_voltage # v
    THEN [Send(s, "VSET", 1, Half(v)) EXCEPT !.channel_1_voltage = Half(v), !.channel_2_voltage = Half(v)]
    ELSE s

\* lines 509-512: channel 1 gets half, channel 2 mirrors it in the cache
SetSeriesVoltage(s, v) ==
    IF Truthy(v) /\ s.channel_1_voltage # Half(v)
    THEN [Send(s, "VSET", 1, Half(v)) EXCEPT !.channel_1_voltage = Half(v), !.channel_2_voltage = Half(v)]
    ELSE s

\* channel 2 pinned in the cache only, as in the draft at line 384
PinSeriesCurrent2CacheOnly(s) == [s EXCEPT !.channel_2_current = Current(3)]

\* lines 516-518
PinSeriesCurrent2(s) ==
    IF s.channel_2_current # Current(3)
    THEN [Send(s, "ISET", 2, Current(3)) EXCEPT !.channel_2_current = Current(3)]
    ELSE s

\* lines 523-525
SetParallelCurrent(s, c) ==
    IF Truthy(c) /\ s.channel_1_current # Half(c)
    THEN [Send(s, "ISET", 1, Half(c)) EXCEPT !.channel_1_current = Half(c)]
    ELSE s

\* lines 495-507
IndependentWrites(s, p) ==
    LET s1 == SetVoltage1(s, p.voltage1)
        s2 == SetVoltage2(s1, p.voltage2)
        s3 == SetCurrent1(s2, p.current1)
    IN  SetCurrent2(s3, p.current2)

\* lines 508-518
SeriesWrites(s, p) ==
    LET s1 == SetSeriesVoltage(s, p.voltage1)
        s2 == SetCurrent1(s1, p.current1)
    IN  PinSeriesCurrent2(s2)

\* lines 519-525
ParallelWrites(s, p) ==
    LET s1 == SetVoltage1(s, p.voltage1)
    IN  SetParallelCurrent(s1, p.current1)

\* lines 494-525
ChannelWrites(s, p) ==
    CASE p.tracking = Independent -> IndependentWrites(s, p)
      [] p.tracking = Series -> SeriesWrites(s, p)
      [] p.tracking = Parallel -> ParallelWrites(s, p)

\* lines 531-534
SetBeep(s, b) ==
    IF b # "None" /\ b # s.beep
    THEN [Send(s, "BEEP", 0, SwitchValue(b)) EXCEPT !.beep = b]
    ELSE s

\* lines 485-534, in the order of the source
Apply(s, p, o, b) ==
    LET s1 == ChangeTracking(s, p.tracking)
        s2 == SwitchOutput(s1, o, Off)
        s3 == ChannelWrites(s2, p)
        s4 == SwitchOutput(s3, o, On)
    IN  SetBeep(s4, b)

(***************************************************************************)
(* The object.                                                             *)
(***************************************************************************)
Self ==
    [tracking |-> tracking, output |-> output, beep |-> beep,
     channel_1_voltage |-> channel_1_voltage, channel_2_voltage |-> channel_2_voltage,
     channel_1_current |-> channel_1_current, channel_2_current |-> channel_2_current,
     sent |-> <<>>]

\* the cache part of a record of the shape of Self
CacheOf(s) ==
    [tracking |-> s.tracking, output |-> s.output, beep |-> s.beep,
     channel_1_voltage |-> s.channel_1_voltage, channel_2_voltage |-> s.channel_2_voltage,
     channel_1_current |-> s.channel_1_current, channel_2_current |-> s.channel_2_current]

\* Supply.set(*as), lines 393-534, called as operation name; a call is made
\* once the caller has taken note of the outcome of the one before
Call(name, as) ==
    LET p == ParseArgs(as, tracking)
        err == Validate(p)
        s == IF err = "ok" THEN Apply(Self, p, ParseOutput(as), ParseBeep(as)) ELSE Self
    IN  /\ tracking' = s.tracking
        /\ output' = s.output
        /\ beep' = s.beep
        /\ channel_1_voltage' = s.channel_1_voltage
        /\ channel_2_voltage' = s.channel_2_voltage
        /\ channel_1_current' = s.channel_1_current
        /\ channel_2_current' = s.channel_2_current
        /\ op' = name
        /\ args' = as
        /\ sent' = s.sent
        /\ result' = err
        /\ pre' = CacheOf(Self)
        /\ UNCHANGED beside

(***************************************************************************)
(* The argument lists the environment passes to set.                       *)
(***************************************************************************)
RequestVolts == {Voltage(0), Voltage(30), Voltage(60), Voltage(61)}

RequestAmps == {Current(0), Current(3), Current(6), Current(7)}

TrackingArgs == {Arg("Tracking", t) : t \in TrackingModes}

ChannelArgs == {ChannelOne, ChannelTwo} \cup {Arg("Voltage", v) : v \in RequestVolts} \cup {Arg("Current", c) : c \in RequestAmps}

OutputArgs == {Arg("Output", On), Arg("Output", Off)}

BeepArgs == {Arg("Beep", On), Arg("Beep", Off)}

AllArgs == TrackingArgs \cup ChannelArgs \cup OutputArgs \cup BeepArgs

\* Arguments are picked out by class, so only the order of the channel,
\* voltage and current arguments matters: the lists are taken with the
\* tracking argument (if any) first and output, then beep, last.
Rank(a) == CASE a.k = "Tracking" -> 0 [] a.k = "Output" -> 2 [] a.k = "Beep" -> 3 [] OTHER -> 1

Ordered(as) ==
    \A i \in 1..Len(as) : \A j \in (i + 1)..Len(as) :
        /\ Rank(as[i]) <= Rank(as[j])
        /\ Rank(as[i]) = Rank(as[j]) => Rank(as[i]) = 1

ArgLists == {as \in UNION {[1..n -> AllArgs] : n \in 0..MaxArgs} : Ordered(as)}

\* Supply.zero, lines 536-545
ZeroArgs ==
    <<Arg("Tracking", Independent), Arg("Voltage", Voltage(0)), Arg("Voltage", Voltage(0)),
      Arg("Current", Current(0)), Arg("Current", Current(0)), Arg("Output", Off), Arg("Beep", Off)>>

(***************************************************************************)
(* Specification.                                                          *)
(***************************************************************************)
\* setpoints the instrument may hold when the object is constructed
InitVolts == {Voltage(0), Voltage(30)}

InitAmps == {Current(0), Current(3)}

\* the serial port between exchanges: closed (Supply.__init__ line 114,
\* __communicate line 158), no call made on it, nobody in an exchange
NoExchange ==
    /\ port = [is_open |-> FALSE, calls |-> <<>>]
    /\ pc = "idle"

\* no GPDX303S object, no reply, no returned value, no construction and no
\* calculation is under way
Beside ==
    /\ gpd = "None"
    /\ response = <<>>
    /\ returned = "None"
    /\ built = "None"
    /\ calc = "None"
    /\ NoExchange

\* Supply.__init__, lines 105-135: tracking, output and beep are read from
\* the instrument's status; the setpoint attributes mirror the instrument's.
\* In series the instrument holds channel 2 at 3 A (lines 516-518 keep it so).
Init ==
    /\ tracking \in TrackingModes
    /\ output \in {On, Off}
    /\ beep \in {On, Off}
    /\ channel_1_voltage \in InitVolts
    /\ channel_2_voltage \in InitVolts
    /\ channel_1_current \in InitAmps
    /\ channel_2_current \in InitAmps
    /\ tracking = Series => channel_2_current = Current(3)
    /\ op = "idle"
    /\ args = <<>>
    /\ sent = <<>>
    /\ result = "ok"
    /\ pre = CacheOf(Self)
    /\ Beside

Set == op = "idle" /\ \E as \in ArgLists : Call("set", as)

Zero == op = "idle" /\ Call("zero", ZeroArgs)

\* a combined request: mode, the setpoints of both channels and, or not,
\* the output
CombinedArgLists ==
    {<<Arg("Tracking", t), Arg("Voltage", v1), Arg("Voltage", v2),
       Arg("Current", c1), Arg("Current", c2)>> \o o :
        t \in TrackingModes, v1 \in InitVolts, v2 \in InitVolts,
        c1 \in InitAmps, c2 \in InitAmps,
        o \in {<<>>, <<Arg("Output", On)>>, <<Arg("Output", Off)>>}}

\* Supply.set(*as), lines 393-534, with a combined request
SetCombined == op = "idle" /\ \E as \in CombinedArgLists : Call("set", as)

\* Supply.set(*as) called a second time, right after it returned, with the
\* arguments of the call before: a request for mode, voltage and current
SetAgain ==
    /\ op = "set"
    /\ result = "ok"
    /\ Instances(args, "Output") = <<>>
    /\ Instances(args, "Beep") = <<>>
    /\ Call("set again", args)

\* the caller takes note of the outcome (return or exception) of the call;
\* the cache stays as the call left it
Return ==
    /\ op # "idle"
    /\ op' = "idle"
    /\ args' = <<>>
    /\ sent' = <<>>
    /\ result' = "ok"
    /\ pre' = CacheOf(Self)
    /\ UNCHANGED cache
    /\ UNCHANGED beside

Next == Set \/ Zero \/ SetCombined \/ SetAgain \/ Return

Spec == Init /\ [][Next]_vars

(***************************************************************************)
(* Properties.  In a state with op # "idle" a call has just run: args are  *)
(* its arguments, pre is the cache it found, sent the exchanges it made,   *)
(* result "ok" or the message of the exception it raised.                  *)
(***************************************************************************)
Called == op # "idle"

\* the request of the call that has just run
Request == ParseArgs(args, pre.tracking)

Sent(c, ch, v) == \E i \in 1..Len(sent) : sent[i] = Cmd(c, ch, v)

SentAny(c, ch) == \E i \in 1..Len(sent) : sent[i].cmd = c /\ sent[i].ch = ch

Unchanged == CacheOf(Self) = pre

SetpointsUnchanged ==
    /\ channel_1_voltage = pre.channel_1_voltage
    /\ channel_2_voltage = pre.channel_2_voltage
    /\ channel_1_current = pre.channel_1_current
    /\ channel_2_current = pre.channel_2_current

\* C1: a call without an output argument that changes the tracking mode
\* while the output is on ends with the cached output off.
C1_ModeChangeForcesOutputOff ==
    (Called /\ tracking # pre.tracking /\ pre.output = On /\ ParseOutput(args) = "None")
        => output = Off

C1_Witness ==
    /\ op = "set" /\ result = "ok"
    /\ tracking # pre.tracking /\ pre.output = On /\ ParseOutput(args) = "None"
    /\ output = Off

\* the legality rules of the three modes, on the request as parsed
RuleViolated(p) ==
    CASE p.tracking = Independent ->
            p.voltage1 > Voltage(30) \/ p.voltage2 > Voltage(30) \/ p.current1 > Current(3) \/ p.current2 > Current(3)
      [] p.tracking = Series ->
            p.voltage1 > Voltage(60) \/ p.current1 > Current(3) \/ p.voltage2 # None \/ p.current2 # None
      [] p.tracking = Parallel ->
            p.voltage1 > Voltage(30) \/ p.current1 > Current(6) \/ p.voltage2 # None \/ p.current2 # None

\* C2: a call that violates a legality rule of its target mode fails,
\* sends nothing and leaves the whole cache as it was.
C2_ViolationFailsBeforeAnyExchange ==
    (Called /\ RuleViolated(Request)) => (result # "ok" /\ sent = <<>> /\ Unchanged)

RECURSIVE NamesChannel2From(_, _, _)
NamesChannel2From(as, i, cur) ==
    IF i > Len(as) THEN FALSE
    ELSE IF as[i].k = "Channel" THEN NamesChannel2From(as, i + 1, as[i].v)
    ELSE IF as[i].k \in {"Voltage", "Current"} /\ cur = 2 THEN TRUE
    ELSE NamesChannel2From(as, i + 1, cur)

NamesChannel2(as) ==
    IF Instances(as, "Channel") # <<>>
    THEN NamesChannel2From(as, 1, 0)
    ELSE Len(Instances(as, "Voltage")) > 1 \/ Len(Instances(as, "Current")) > 1

\* C5: with target mode parallel, a call that names a voltage or current
\* for channel 2, whatever its value, fails (with the addressability error
\* when nothing else is wrong) and sends no VSET2 or ISET2.
C5_ParallelRejectsChannel2 ==
    (Called /\ Request.tracking = Parallel /\ NamesChannel2(args))
        => /\ result # "ok"
           /\ (~(Request.voltage1 > Voltage(30)) /\ ~(Request.current1 > Current(6)))
                => result \in {ParallelVoltage2, ParallelCurrent2}
           /\ ~SentAny("VSET", 2) /\ ~SentAny("ISET", 2)

\* the value a request for v (voltage) or c (current) of channel 1 puts in
\* the cache in mode t
TargetVoltage1(t, v) == IF t = Series THEN Half(v) ELSE v

TargetCurrent1(t, c) == IF t = Parallel THEN Half(c) ELSE c

\* the call asks only for setpoints, in the mode the object is in
OnlySetpoints ==
    /\ op = "set" /\ result = "ok"
    /\ Request.tracking = pre.tracking
    /\ ParseOutput(args) = "None" /\ ParseBeep(args) = "None"

\* every setpoint the call asks for is the one the cache holds
AllCached ==
    /\ Truthy(Request.voltage1) => TargetVoltage1(Request.tracking, Request.voltage1) = pre.channel_1_voltage
    /\ Truthy(Request.current1) => TargetCurrent1(Request.tracking, Request.current1) = pre.channel_1_current
    /\ Truthy(Request.voltage2) => Request.voltage2 = pre.channel_2_voltage
    /\ Truthy(Request.current2) => Request.current2 = pre.channel_2_current

C7_OutputOffFirst ==
    (Called /\ result = "ok" /\ ParseOutput(args) = Off /\ pre.output = On)
        => (sent # <<>> /\ sent[1] = Cmd("OUT", 0, 0))

\* C8: after a successful call that leaves the mode at series the cached
\* channel-2 current is 3 A, and ISET2:3 was sent if the cache held
\* another value when the call began.
C8_SeriesPinsChannel2Current ==
    (Called /\ result = "ok" /\ tracking = Series)
        => /\ channel_2_current = Current(3)
           /\ pre.channel_2_current # Current(3) => Sent("ISET", 2, Current(3))

C8_Witness ==
    /\ op = "set" /\ result = "ok" /\ tracking = Series
    /\ pre.channel_2_current # Current(3)
    /\ channel_2_current = Current(3) /\ Sent("ISET", 2, Current(3))

\* C9: with target mode series a current above 3 A fails and sends
\* nothing, and no ISET1 above 3 A is sent by a call that ends in series.
C9_SeriesCurrentLimit ==
    Called
        => /\ (Request.tracking = Series /\ Request.current1 > Current(3)) => (result # "ok" /\ sent = <<>>)
           /\ tracking = Series => \A i \in 1..Len(sent) :
                (sent[i].cmd = "ISET" /\ sent[i].ch = 1) => sent[i].val <= Current(3)

\* C10: with target mode parallel a current I <= 6 is written to channel 1
\* as I/2 and cached as I/2, a current above 6 or a voltage above 30 fails
\* and sends nothing, and no ISET1 above 3 or VSET1 above 30 is sent.
C10_ParallelHalvesCurrent ==
    (Called /\ Request.tracking = Parallel)
        => /\ (Request.current1 # None /\ Request.current1 <= Current(6) /\ result = "ok")
                => (Sent("ISET", 1, Half(Request.current1)) /\ channel_1_current = Half(Request.current1))
           /\ (Request.current1 > Current(6) \/ Request.voltage1 > Voltage(30)) => (result # "ok" /\ sent = <<>>)
           /\ \A i \in 1..Len(sent) :
                /\ (sent[i].cmd = "ISET" /\ sent[i].ch = 1) => sent[i].val <= Current(3)
                /\ (sent[i].cmd = "VSET" /\ sent[i].ch = 1) => sent[i].val <= Voltage(30)

\* the exchange is a setpoint write
IsWrite(c) == c.cmd \in {"VSET", "ISET"}

\* the call that has just run changed the mode and wrote a setpoint
ModeChangeWithWrites ==
    Called /\ tracking # pre.tracking /\ \E i \in 1..Len(sent) : IsWrite(sent[i])

\* every setpoint written is the requested one as the mode now set has it:
\* half the voltage in series, half the current in parallel, channel 2 in
\* independent mode only (but for the 3 A series keeps on channel 2)
WritesTransformed ==
    \A i \in 1..Len(sent) :
        /\ sent[i].cmd = "VSET" /\ sent[i].ch = 1 => sent[i].val = TargetVoltage1(tracking, Request.voltage1)
        /\ sent[i].cmd = "ISET" /\ sent[i].ch = 1 => sent[i].val = TargetCurrent1(tracking, Request.current1)
        /\ sent[i].cmd = "VSET" /\ sent[i].ch = 2 => (tracking = Independent /\ sent[i].val = Request.voltage2)
        /\ sent[i].cmd = "ISET" /\ sent[i].ch = 2 =>
               IF tracking = Series THEN sent[i].val = Current(3)
               ELSE tracking = Independent /\ sent[i].val = Request.current2

\* TRACK goes out before every setpoint write
TrackFirst ==
    \A i \in 1..Len(sent) : \A j \in 1..Len(sent) :
        (sent[i].cmd = "TRACK" /\ IsWrite(sent[j])) => i < j

\* C22: a call that changes the mode and writes setpoints sends TRACK before
\* every VSET and ISET, and the values written are legal in and transformed
\* for the mode it changes to.
C22_ModeBeforeWrites ==
    ModeChangeWithWrites =>
        /\ Sent("TRACK", 0, TrackingValue(tracking))
        /\ TrackFirst
        /\ ~RuleViolated(Request)
        /\ WritesTransformed

\* C23: a successful call that asks for output on while the output is off
\* sends OUT1 after every TRACK, VSET and ISET, as its last exchange.
C23_OutputOnLast ==
    (Called /\ result = "ok" /\ ParseOutput(args) = On /\ pre.output = Off)
        => /\ sent # <<>>
           /\ sent[Len(sent)] = Cmd("OUT", 0, 1)
           /\ \A i \in 1..(Len(sent) - 1) : sent[i] # Cmd("OUT", 0, 1)

\* C24: the exchanges of a call go out in the order mode, channel-1 writes,
\* channel-2 writes, output on.
C24_FixedOrder ==
    Called =>
        /\ TrackFirst
        /\ \A i \in 1..Len(sent) : \A j \in 1..Len(sent) :
              /\ (IsWrite(sent[i]) /\ sent[i].ch = 1 /\ IsWrite(sent[j]) /\ sent[j].ch = 2) => i < j
              /\ (IsWrite(sent[i]) /\ sent[j] = Cmd("OUT", 0, 1)) => i < j

C29_ZeroResets ==
    (op = "zero" /\ result = "ok")
        => /\ tracking = Independent /\ output = Off /\ beep = Off
           /\ channel_1_voltage = Voltage(0) /\ channel_2_voltage = Voltage(0)
           /\ channel_1_current = Current(0) /\ channel_2_current = Current(0)
           /\ pre.channel_1_voltage # Voltage(0) => Sent("VSET", 1, Voltage(0))
           /\ pre.channel_2_voltage # Voltage(0) => Sent("VSET", 2, Voltage(0))
           /\ pre.channel_1_current # Current(0) => Sent("ISET", 1, Current(0))
           /\ pre.channel_2_current # Current(0) => Sent("ISET", 2, Current(0))

(***************************************************************************)
(* Exchanges with replies.  The operations below are the ones that look at *)
(* (or ignore) what the instrument answers: the properties of GPDX303S     *)
(* (gpd/__init__.py), the setters and helpers of Supply and Supply.get.    *)
(* One call consumes one reply per exchange; response lists the replies    *)
(* read.  A reply is a record: the text of the line or, for a number, the  *)
(* number and the unit letter that follows it.                             *)
(***************************************************************************)
\* __communicate returns None when reading the line raised
NoResponse == "None"

\* the line read: its text, or "number" with the value and the unit letter
\* after it, or "status" with the value of the two mode digits
Reply(kind, value, suffix) == [kind |-> kind, value |-> value, suffix |-> suffix]

\* the error lines of the instrument
ErrorLines == {"Data out of range", "Invalid Character", "Command not allowed"}

\* what __communicate can return to a setter: None, the empty line of a read
\* that timed out, an error line, and the answers to "OUT?"
Replies == {Reply(t, 0, "") : t \in {NoResponse, "", "0", "1"} \cup ErrorLines}

\* what __communicate can return to Supply.get: readings with either unit
\* letter, status lines, and None, an error line or the empty line
ReadReplies ==
    {Reply("number", v, u) : v \in {Voltage(0), Voltage(15), Voltage(30)}, u \in {"V", "A"}}
        \cup {Reply("status", 1, ""), Reply("status", 10, "")}
        \cup {Reply(t, 0, "") : t \in {NoResponse, "Invalid Character", ""}}

\* Python's "phrase in response" for a response that is a str; every line
\* above either is the phrase or shares no part with it
Has(reply, phrase) == reply.kind = phrase

\* response == None / response is None
IsNone(reply) == reply.kind = NoResponse

\* int(value) of a bool in f"BEEP{int(value)}"
IntOf(b) == IF b THEN 1 ELSE 0

\* the objects a call works on, with what it sent, read, raised and returned
Objects ==
    [gpd |-> gpd, beep |-> beep, output |-> output,
     sent |-> <<>>, response |-> <<>>, result |-> "ok", returned |-> Arg("None", 0)]

\* GPDX303S.__communicate (gpd 153-162) and Supply.__communicate (149-159):
\* one command written, one line read
Exchange(f, c, ch, v, reply) ==
    [f EXCEPT !.sent = Append(@, Cmd(c, ch, v)), !.response = Append(@, reply)]

Raise(f, message) == [f EXCEPT !.result = message]

\* a precheck that asks for remote to be True ("not self.remote")
LocalModeOrUnknown(f) == f.gpd.remote # "True"

\* GPDX303S.__prechecks("remote"), gpd 182-184
LocalMode(f) == f.gpd.remote = "False"

\* GPDX303S.__XSET, gpd 213-225; x is "VSET" or "ISET".  With response None
\* the test "Data out of range" in response raises TypeError.
XSET(f, channel, x, value, reply) ==
    IF value = None THEN f
    ELSE IF LocalMode(f) THEN Raise(f, "Supply is in local mode")
    ELSE LET g == Exchange(f, x, channel, value, reply)
         IN  CASE IsNone(reply) -> Raise(g, "TypeError")
               [] Has(reply, "Data out of range") -> Raise(g, "is out of range")
               [] Has(reply, "Command not allowed") -> Raise(g, "Cannot set")
               [] OTHER -> g

\* GPDX303S.__configed_values(channel, value), gpd 205-211, with the value
\* already taken apart into voltage and current (None when not given)
ConfigedValues(f, channel, voltage, current, replies) ==
    LET f1 == XSET(f, channel, "VSET", voltage, replies[1])
    IN  IF f1.result # "ok" THEN f1
        ELSE XSET(f1, channel, "ISET", current, replies[Len(f1.response) + 1])

\* what a call found before it ran
Found == [gpd |-> gpd, beep |-> beep, output |-> output]

\* a call of one of the operations has run with outcome f
Ran(name, as, f) ==
    /\ op' = name
    /\ args' = as
    /\ gpd' = f.gpd
    /\ beep' = f.beep
    /\ output' = f.output
    /\ sent' = f.sent
    /\ response' = f.response
    /\ result' = f.result
    /\ returned' = f.returned
    /\ pre' = Found
    /\ UNCHANGED <<tracking, channel_1_voltage, channel_2_voltage,
                   channel_1_current, channel_2_current, built, calc, port, pc>>

\* GPDX303S.__init__ leaves remote at the class default None (gpd 29) and
\* reads tracking and beep from the status (gpd 164-180); remote may since
\* have been set either way.  Supply.__init__ (105-135) reads tracking,
\* output and beep.
InitFacade ==
    /\ gpd \in [remote : {"None", "True", "False"}, beep : BOOLEAN, tracking : TrackingModes]
    /\ tracking \in TrackingModes
    /\ beep \in {On, Off}
    /\ output \in {On, Off}
    /\ channel_1_voltage = Voltage(0)
    /\ channel_2_voltage = Voltage(0)
    /\ channel_1_current = Current(0)
    /\ channel_2_current = Current(0)
    /\ op = "idle"
    /\ args = <<>>
    /\ sent = <<>>
    /\ result = "ok"
    /\ response = <<>>
    /\ returned = Arg("None", 0)
    /\ pre = Found
    /\ built = "None"
    /\ calc = "None"
    /\ NoExchange

\* GPDX303S.remote setter, gpd 53-56
RemoteSetter ==
    op = "idle" /\ \E value \in BOOLEAN, reply \in Replies :
        Ran("gpd.remote", <<value>>,
            [Exchange(Objects, IF value THEN "REMOTE" ELSE "LOCAL", 0, 0, reply)
                EXCEPT !.gpd.remote = IF value THEN "True" ELSE "False"])

\* GPDX303S.beep getter, gpd 72-74
BeepGetter ==
    op = "idle" /\ Ran("gpd.beep?", <<>>, [Objects EXCEPT !.returned = Arg("Beep", gpd.beep)])

\* GPDX303S.beep setter, gpd 76-81
BeepSetter ==
    op = "idle" /\ \E value \in BOOLEAN, reply \in Replies :
        Ran("gpd.beep", <<value>>,
            IF value = gpd.beep THEN Objects
            ELSE [Exchange(Objects, "BEEP", 0, IntOf(value), reply) EXCEPT !.gpd.beep = value])

\* GPDX303S.output getter, gpd 83-85: bool(int(response))
OutputGetter ==
    op = "idle" /\ \E reply \in Replies :
        Ran("gpd.output?", <<>>,
            LET g == Exchange(Objects, "OUT?", 0, 0, reply)
            IN  CASE IsNone(reply) -> Raise(g, "TypeError")
                  [] reply.kind = "0" -> [g EXCEPT !.returned = Arg("Output", FALSE)]
                  [] reply.kind = "1" -> [g EXCEPT !.returned = Arg("Output", TRUE)]
                  [] OTHER -> Raise(g, "ValueError"))

\* GPDX303S.output setter, gpd 87-90
OutputSetter ==
    op = "idle" /\ \E value \in BOOLEAN, reply \in Replies :
        Ran("gpd.output", <<value>>,
            IF LocalMode(Objects) THEN Raise(Objects, "Supply is in local mode")
            ELSE Exchange(Objects, "OUT", 0, IntOf(value), reply))

\* GPDX303S.tracking getter, gpd 92-94
TrackingGetter ==
    op = "idle" /\ Ran("gpd.tracking?", <<>>, [Objects EXCEPT !.returned = Arg("Tracking", gpd.tracking)])

\* GPDX303S.tracking setter, gpd 96-108
TrackingSetter ==
    op = "idle" /\ \E value \in TrackingModes, reply \in Replies :
        Ran("gpd.tracking", <<value>>,
            IF LocalMode(Objects) THEN Raise(Objects, "Supply is in local mode")
            ELSE IF value = gpd.tracking THEN Objects
            ELSE [Exchange(Objects, "TRACK", 0, TrackingValue(value), reply)
                     EXCEPT !.gpd.tracking = value])

\* GPDX303S.channel_1 and channel_2 setters, gpd 114-128: a voltage, a
\* current or both
ChannelSetter ==
    op = "idle" /\ \E channel \in {1, 2}, voltage \in {None, Voltage(30)},
                      current \in {None, Current(3)}, replies \in [1..2 -> Replies] :
        /\ voltage # None \/ current # None
        /\ Ran("gpd.channel", <<channel, voltage, current>>,
               ConfigedValues(Objects, channel, voltage, current, replies))

\* GPDX303S.__RCL, gpd 238-241
RCL ==
    op = "idle" /\ \E reply \in Replies :
        Ran("gpd.RCL", <<1>>,
            LET g == Exchange(Objects, "RCL", 0, 1, reply)
            IN  IF ~IsNone(reply) THEN Raise(g, "Could not recall memory") ELSE g)

\* GPDX303S.__SAV, gpd 243-246
SAV ==
    op = "idle" /\ \E reply \in Replies :
        Ran("gpd.SAV", <<1>>,
            LET g == Exchange(Objects, "SAV", 0, 1, reply)
            IN  IF ~IsNone(reply) THEN Raise(g, "Could not save memory") ELSE g)

\* Supply.beep setter, lines 73-78
SupplyBeepSetter ==
    op = "idle" /\ \E value \in {On, Off}, reply \in Replies :
        Ran("beep", <<value>>,
            LET g == Exchange(Objects, "BEEP", 0, SwitchValue(value), reply)
            IN  IF ~IsNone(reply) THEN Raise(g, "Could not set beep")
                ELSE [g EXCEPT !.beep = value])

\* Supply.output setter, lines 80-85
SupplyOutputSetter ==
    op = "idle" /\ \E value \in {On, Off}, reply \in Replies :
        Ran("output", <<value>>,
            LET g == Exchange(Objects, "OUT", 0, SwitchValue(value), reply)
            IN  IF ~IsNone(reply) THEN Raise(g, "Could not set output")
                ELSE [g EXCEPT !.output = value])

\* Supply.__set_voltage, lines 172-183, for a channel holding 30 V
SupplySetVoltage ==
    op = "idle" /\ \E channel \in {1, 2}, reply \in Replies :
        Ran("__set_voltage", <<channel>>,
            LET g == Exchange(Objects, "VSET", channel, Voltage(30), reply)
            IN  CASE ~IsNone(reply) /\ Has(reply, "Invalid Character") -> Raise(g, "does not exist")
                  [] ~IsNone(reply) /\ Has(reply, "Data out of range") -> Raise(g, "is out of range")
                  [] ~IsNone(reply) /\ Has(reply, "Command not allowed") -> Raise(g, "Cannot set voltage")
                  [] OTHER -> [g EXCEPT !.returned = Arg("bool", IsNone(reply))])

\* Supply.__set_current, lines 193-204, for a channel holding 3 A: the error
\* lines are printed, nothing is raised
SupplySetCurrent ==
    op = "idle" /\ \E channel \in {1, 2}, reply \in Replies :
        Ran("__set_current", <<channel>>,
            [Exchange(Objects, "ISET", channel, Current(3), reply)
                EXCEPT !.returned = Arg("bool", IsNone(reply))])

(***************************************************************************)
(* Supply.get, lines 234-298.                                              *)
(***************************************************************************)
\* the longest positional argument list handed to get by the environment
MaxGetArgs == 2

\* a class passed as an argument, as in get(Voltage)
Class(name) == Arg("type", name)

\* any([arg for arg in args if arg == K])
Asks(as, name) == Contains(as, Class(name))

\* Supply.__get_voltage, lines 162-170; float() raises ValueError for what
\* is not a number once the letter V is taken off its end
GetVoltage(f, channel, reply) ==
    LET g == Exchange(f, "VOUT?", channel, 0, reply)
    IN  CASE IsNone(reply) -> Raise(g, "Did not receive response from Supply")
          [] Has(reply, "Invalid Character") -> Raise(g, "Channel does not exist")
          [] reply.kind = "number" /\ reply.suffix = "V" -> [g EXCEPT !.returned = Arg("Voltage", reply.value)]
          [] OTHER -> Raise(g, "ValueError")

\* Supply.__get_current, lines 185-191
GetCurrent(f, channel, reply) ==
    LET g == Exchange(f, "IOUT?", channel, 0, reply)
    IN  CASE IsNone(reply) -> Raise(g, "Did not receive response from Supply")
          [] Has(reply, "Invalid Character") -> Raise(g, "Channel does not exist")
          [] reply.kind = "number" /\ reply.suffix = "A" -> [g EXCEPT !.returned = Arg("Current", reply.value)]
          [] OTHER -> Raise(g, "ValueError")

\* Supply.__state, lines 159-160, and the channel_1 / channel_2 attribute
\* read off it (lines 265-267): the digit of the channel, as the line has it
GetMode(f, channel, reply) ==
    LET g == Exchange(f, "STATUS?", 0, 0, reply)
    IN  IF reply.kind = "status"
        THEN [g EXCEPT !.returned = Arg("Mode", IF channel = 1 THEN reply.value \div 10 ELSE reply.value % 10)]
        ELSE Raise(g, "Either this is not a Supply")

\* quantity * 2, lines 279 and 294 (UnitBase.__mul__, types 74-75)
Twice(g) == IF g.result = "ok" THEN [g EXCEPT !.returned.v = @ * 2] ELSE g

\* a series voltage read that hands back the reading of channel 1 as it is
GetSeriesVoltageRaw(f, as, reply) == GetVoltage(f, 1, reply)

\* lines 274-279
GetSeriesVoltage(f, as, reply) ==
    IF Asks(as, "Common") THEN GetVoltage(f, 1, reply) ELSE Twice(GetVoltage(f, 1, reply))

\* lines 258-267
GetIndependent(f, as, channel, reply) ==
    IF channel = None THEN Raise(f, "Must specify channel while in independent mode")
    ELSE IF Asks(as, "Voltage") THEN GetVoltage(f, channel, reply)
    ELSE IF Asks(as, "Current") THEN GetCurrent(f, channel, reply)
    ELSE GetMode(f, channel, reply)

\* a series read that does not look at the channel it is asked for
GetSeriesAnyChannel(f, as, channel, reply) ==
    IF Asks(as, "Voltage") THEN GetSeriesVoltage(f, as, reply)
    ELSE IF Asks(as, "Current") THEN GetCurrent(f, 1, reply)
    ELSE GetMode(f, 1, reply)

\* lines 269-283
GetSeries(f, as, channel, reply) ==
    IF channel = 2 THEN Raise(f, "Channel 2 not accessible in series mode")
    ELSE IF Asks(as, "Voltage") THEN GetSeriesVoltage(f, as, reply)
    ELSE IF Asks(as, "Current") THEN GetCurrent(f, 1, reply)
    ELSE GetMode(f, 1, reply)

\* lines 285-296
GetParallel(f, as, channel, reply) ==
    IF channel = 2 THEN Raise(f, "Channel 2 not accessible in parallel mode")
    ELSE IF Asks(as, "Voltage") THEN GetVoltage(f, 1, reply)
    ELSE IF Asks(as, "Current") THEN Twice(GetCurrent(f, 1, reply))
    ELSE GetMode(f, 1, reply)

\* a read of the output flag that asks the instrument (as GPDX303S.output does)
GetCachedAsking(f, as, reply) ==
    IF Asks(as, "Beep") THEN [f EXCEPT !.returned = Arg("Beep", f.beep)]
    ELSE IF Asks(as, "Output")
         THEN [Exchange(f, "OUT?", 0, 0, reply) EXCEPT !.returned = Arg("Output", f.output)]
    ELSE [f EXCEPT !.returned = Arg("Tracking", tracking)]

\* lines 240-247: beep, output and tracking are handed back from the cache
GetCached(f, as, reply) ==
    IF Asks(as, "Beep") THEN [f EXCEPT !.returned = Arg("Beep", f.beep)]
    ELSE IF Asks(as, "Output") THEN [f EXCEPT !.returned = Arg("Output", f.output)]
    ELSE [f EXCEPT !.returned = Arg("Tracking", tracking)]

\* what get is called with: classes and channels
GetArgLists ==
    LET tokens == {Class(c) : c \in {"Beep", "Output", "Tracking", "Voltage", "Current", "Mode", "Common"}}
                      \cup {ChannelOne, ChannelTwo}
    IN  UNION {[1..n -> tokens] : n \in 0..MaxGetArgs}

\* Supply.get(*as), lines 234-298; reply is the line the instrument sends if
\* it is asked
Get ==
    op = "idle" /\ \E as \in GetArgLists, reply \in ReadReplies :
        Ran("get", as,
            LET channels == Instances(as, "Channel")
                channel == IF channels # <<>> THEN channels[1].v ELSE None
            IN  IF Asks(as, "Beep") \/ Asks(as, "Output") \/ Asks(as, "Tracking")
                THEN GetCached(Objects, as, reply)
                ELSE IF ~Asks(as, "Voltage") /\ ~Asks(as, "Current") /\ ~Asks(as, "Mode")
                THEN Raise(Objects, "Must specify Current, Voltage, or Mode")
                ELSE CASE tracking = Independent -> GetIndependent(Objects, as, channel, reply)
                       [] tracking = Series -> GetSeries(Objects, as, channel, reply)
                       [] tracking = Parallel -> GetParallel(Objects, as, channel, reply))

\* the caller takes note of the outcome of the call
FacadeReturn ==
    /\ op # "idle"
    /\ op' = "idle"
    /\ args' = <<>>
    /\ sent' = <<>>
    /\ result' = "ok"
    /\ response' = <<>>
    /\ returned' = Arg("None", 0)
    /\ pre' = Found
    /\ UNCHANGED <<cache, gpd, built, calc, port, pc>>

NextFacade ==
    \/ RemoteSetter \/ BeepGetter \/ BeepSetter \/ OutputGetter \/ OutputSetter
    \/ TrackingGetter \/ TrackingSetter \/ ChannelSetter \/ RCL \/ SAV
    \/ SupplyBeepSetter \/ SupplyOutputSetter \/ SupplySetVoltage \/ SupplySetCurrent
    \/ Get \/ FacadeReturn

SpecFacade == InitFacade /\ [][NextFacade]_vars

(***************************************************************************)
(* Properties of the exchanges with replies (SpecFacade).                  *)
(***************************************************************************)
\* some exchange of the call that has just run was answered with an error line
ErrorLineRead == \E i \in 1..Len(response) : response[i].kind \in ErrorLines

\* every exchange of the call that has just run was left unanswered
OnlySilence == response # <<>> /\ \A i \in 1..Len(response) : IsNone(response[i])

\* the calls that issue the action commands BEEP, OUT, TRACK, VSET, ISET,
\* RCL and SAV
ActionCalls ==
    {"gpd.beep", "gpd.output", "gpd.tracking", "gpd.channel", "gpd.RCL", "gpd.SAV",
     "beep", "output", "__set_voltage", "__set_current"}

\* the voltage and current writes
WriteCalls == {"gpd.channel", "__set_voltage", "__set_current"}

\* C11: when an exchange of an operation is answered with an error line, no
\* cached field (tracking, output, beep, remote) is changed: the cache is
\* what it was before the operation.
C11_ErrorLineKeepsCache ==
    (op # "idle" /\ ErrorLineRead) => Found = pre

\* C12: an action command (BEEP, OUT, TRACK, VSET, ISET, RCL, SAV) that the
\* instrument leaves unanswered is a success: the operation does not raise
\* and the cached field it is about holds the requested value.
C12_SilenceIsSuccess ==
    (op \in ActionCalls /\ OnlySilence) =>
        /\ result = "ok"
        /\ op = "gpd.beep" => gpd.beep = args[1]
        /\ op = "gpd.tracking" => gpd.tracking = args[1]
        /\ op = "beep" => beep = args[1]
        /\ op = "output" => output = args[1]

\* C13: a voltage or current write whose last reply is "Data out of range",
\* "Invalid Character" or "Command not allowed" ends in an exception raised
\* to the caller, never in a normal return.
C13_ErrorLineRaises ==
    (op \in WriteCalls /\ response # <<>> /\ response[Len(response)].kind \in ErrorLines) =>
        result # "ok"

(* Properties of the reads (SpecFacade).                                      *)
(***************************************************************************)
\* get has just run and was asked for beep, output or tracking
CachedRead == op = "get" /\ (Asks(args, "Beep") \/ Asks(args, "Output") \/ Asks(args, "Tracking"))

\* get has just run and was asked for the mode only
ModeRead ==
    /\ op = "get"
    /\ ~CachedRead
    /\ Asks(args, "Mode") /\ ~Asks(args, "Voltage") /\ ~Asks(args, "Current")

\* get has just run and handed back a reading of the instrument
MeasuredRead == op = "get" /\ ~CachedRead /\ result = "ok" /\ response # <<>>

\* the cached value get owes for the first of beep, output, tracking asked
CachedValue ==
    IF Asks(args, "Beep") THEN Arg("Beep", pre.beep)
    ELSE IF Asks(args, "Output") THEN Arg("Output", pre.output)
    ELSE Arg("Tracking", tracking)

\* C18 as stated: a read of mode, beep, output or tracking issues no
\* exchange.
C18_Original ==
    (CachedRead \/ ModeRead \/ op \in {"gpd.beep?", "gpd.tracking?", "gpd.output?"}) => sent = <<>>

\* C18: a read of beep, output or tracking through get, and of beep or
\* tracking of GPDX303S, issues no exchange and hands back the cached
\* value, leaving the cache as it was; a read of the mode that succeeds
\* has issued the one exchange STATUS?, and a read of the output of
\* GPDX303S the one exchange OUT?.
C18_CachedReads ==
    /\ CachedRead => (sent = <<>> /\ result = "ok" /\ returned = CachedValue /\ Found = pre)
    /\ op = "gpd.beep?" => (sent = <<>> /\ returned = Arg("Beep", pre.gpd.beep) /\ Found = pre)
    /\ op = "gpd.tracking?" => (sent = <<>> /\ returned = Arg("Tracking", pre.gpd.tracking) /\ Found = pre)
    /\ (ModeRead /\ result = "ok") => sent = <<Cmd("STATUS?", 0, 0)>>
    /\ op = "gpd.output?" => sent = <<Cmd("OUT?", 0, 0)>>

C18_Witness ==
    /\ op = "get"
    /\ args = <<Class("Output")>>
    /\ pre.output = On
    /\ sent = <<>>
    /\ returned = Arg("Output", On)

\* C19: a voltage read in Series hands back twice the reading of channel 1,
\* unless the common reference is asked for, and then the reading itself; a
\* current read in Parallel hands back twice the reading of channel 1; a
\* current read in Series and a voltage read in Parallel hand back the
\* reading itself.
C19_DerivedReads ==
    MeasuredRead =>
        /\ (tracking = Series /\ Asks(args, "Voltage")) =>
              /\ sent = <<Cmd("VOUT?", 1, 0)>>
              /\ returned = Arg("Voltage", IF Asks(args, "Common") THEN response[1].value
                                                                  ELSE 2 * response[1].value)
        /\ (tracking = Series /\ ~Asks(args, "Voltage") /\ Asks(args, "Current")) =>
              /\ sent = <<Cmd("IOUT?", 1, 0)>>
              /\ returned = Arg("Current", response[1].value)
        /\ (tracking = Parallel /\ Asks(args, "Voltage")) =>
              /\ sent = <<Cmd("VOUT?", 1, 0)>>
              /\ returned = Arg("Voltage", response[1].value)
        /\ (tracking = Parallel /\ ~Asks(args, "Voltage") /\ Asks(args, "Current")) =>
              /\ sent = <<Cmd("IOUT?", 1, 0)>>
              /\ returned = Arg("Current", 2 * response[1].value)

C19_Witness ==
    /\ MeasuredRead
    /\ tracking = Series
    /\ args = <<Class("Voltage")>>
    /\ response = <<Reply("number", Voltage(15), "V")>>
    /\ returned = Arg("Voltage", Voltage(30))

\* get has just run and named none of voltage, current and mode
NamesNoQuantity ==
    op = "get" /\ ~Asks(args, "Voltage") /\ ~Asks(args, "Current") /\ ~Asks(args, "Mode")

\* the channel the call of get was addressed to, None without one
AddressedChannel ==
    IF Instances(args, "Channel") # <<>> THEN Instances(args, "Channel")[1].v ELSE None

NotAccessible == {"Channel 2 not accessible in series mode", "Channel 2 not accessible in parallel mode"}

\* C28 as stated: a get that names none of voltage, current and mode fails
\* with the missing-quantity error, a voltage, current or mode get without
\* a channel in independent mode fails, a get addressed to channel 2 in
\* series or parallel fails (as not accessible); no exchange is issued.
C28_Original ==
    /\ NamesNoQuantity => (result = "Must specify Current, Voltage, or Mode" /\ sent = <<>>)
    /\ (op = "get" /\ ~NamesNoQuantity /\ tracking = Independent /\ AddressedChannel = None)
          => (result # "ok" /\ sent = <<>>)
    /\ (op = "get" /\ tracking \in {Series, Parallel} /\ AddressedChannel = 2)
          => /\ result # "ok" /\ sent = <<>>
             /\ ~NamesNoQuantity => result \in NotAccessible

\* C28: of the calls of get that name none of beep, output and tracking, one
\* that names none of voltage, current and mode fails with the
\* missing-quantity error, one for voltage, current or mode without a
\* channel in independent mode fails with the missing-channel error, and
\* one for voltage, current or mode addressed to channel 2 in series or
\* parallel fails with the not-accessible error of the mode; in all three
\* cases no exchange is issued and the cache is left as it was.
C28_GetErrors ==
    (op = "get" /\ ~CachedRead) =>
        /\ NamesNoQuantity =>
              (result = "Must specify Current, Voltage, or Mode" /\ sent = <<>> /\ Found = pre)
        /\ (~NamesNoQuantity /\ tracking = Independent /\ AddressedChannel = None) =>
              (result = "Must specify channel while in independent mode" /\ sent = <<>> /\ Found = pre)
        /\ (~NamesNoQuantity /\ tracking = Series /\ AddressedChannel = 2) =>
              (result = "Channel 2 not accessible in series mode" /\ sent = <<>> /\ Found = pre)
        /\ (~NamesNoQuantity /\ tracking = Parallel /\ AddressedChannel = 2) =>
              (result = "Channel 2 not accessible in parallel mode" /\ sent = <<>> /\ Found = pre)

C28_Witness ==
    /\ op = "get"
    /\ tracking = Series
    /\ args = <<ChannelTwo, Class("Voltage")>>
    /\ result = "Channel 2 not accessible in series mode"
    /\ sent = <<>>

\* the setters of GPDX303S that check for remote mode first
GatedCalls == {"gpd.output", "gpd.tracking", "gpd.channel"}

\* C30: while the remote flag is False a set of output, tracking or a
\* channel setpoint fails with "Supply is in local mode" and issues no
\* exchange; while it is unknown or True such a set is not stopped by that
\* error; setting remote sends REMOTE (True) or LOCAL (False) and leaves
\* the flag at the value set.
C30_LocalModeBlocks ==
    /\ (op \in GatedCalls /\ pre.gpd.remote = "False") =>
          (result = "Supply is in local mode" /\ sent = <<>> /\ Found = pre)
    /\ (op \in GatedCalls /\ pre.gpd.remote # "False") => result # "Supply is in local mode"
    /\ op = "gpd.remote" =>
          /\ sent = <<Cmd(IF args[1] THEN "REMOTE" ELSE "LOCAL", 0, 0)>>
          /\ gpd.remote = (IF args[1] THEN "True" ELSE "False")

C30_Witness ==
    /\ op = "gpd.tracking"
    /\ pre.gpd.remote = "False"
    /\ args[1] # pre.gpd.tracking
    /\ result = "Supply is in local mode"
    /\ sent = <<>>
    /\ gpd.tracking = pre.gpd.tracking

(***************************************************************************)
(* Construction.  A line of the instrument is the sequence of its          *)
(* characters, so that split, strip, lower, slicing and "in" do what       *)
(* Python's do.                                                            *)
(***************************************************************************)
\* the None that __communicate returns, among the lines
NoLine == <<NoResponse>>

\* str.lower()
Lower(s) ==
    LET upper ==
            <<"A", "B", "C", "D", "E", "F", "G", "H", "I", "J", "K", "L",
              "M", "N", "O", "P", "Q", "R", "S", "T", "U", "V", "W", "X",
              "Y", "Z">>
        lower ==
            <<"a", "b", "c", "d", "e", "f", "g", "h", "i", "j", "k", "l",
              "m", "n", "o", "p", "q", "r", "s", "t", "u", "v", "w", "x",
              "y", "z">>
    IN  [i \in 1..Len(s) |->
            IF \E k \in 1..Len(upper) : upper[k] = s[i]
            THEN lower[CHOOSE k \in 1..Len(upper) : upper[k] = s[i]]
            ELSE s[i]]

\* Python's "sub in s" for two str
IsIn(sub, s) ==
    \E i \in 0..(Len(s) - Len(sub)) : SubSeq(s, i + 1, i + Len(sub)) = sub

\* str.split(sep) for a separator of one character
RECURSIVE Split(_, _)
Split(s, sep) ==
    IF \A i \in 1..Len(s) : s[i] # sep
    THEN <<s>>
    ELSE LET i == CHOOSE i \in 1..Len(s) : s[i] = sep /\ \A j \in 1..(i - 1) : s[j] # sep
         IN  <<SubSeq(s, 1, i - 1)>> \o Split(SubSeq(s, i + 1, Len(s)), sep)

\* str.strip()
RECURSIVE Strip(_)
Strip(s) ==
    IF s # <<>> /\ Head(s) = " " THEN Strip(Tail(s))
    ELSE IF s # <<>> /\ s[Len(s)] = " " THEN Strip(SubSeq(s, 1, Len(s) - 1))
    ELSE s

\* s[a:b] with 0 <= a <= b
Cut(s, a, b) == SubSeq(s, a + 1, IF b < Len(s) THEN b ELSE Len(s))

\* int(c) of one character; None stands for the ValueError of a character
\* that is not a digit
IntOfDigit(c) ==
    LET digits == <<"0", "1", "2", "3", "4", "5", "6", "7", "8", "9">>
    IN  IF \E k \in 1..10 : digits[k] = c THEN (CHOOSE k \in 1..10 : digits[k] = c) - 1 ELSE None

\* the manufacturer substring looked for
Instek == <<"i", "n", "s", "t", "e", "k">>

\* the substrings get_devices looks for, gpd 312-316: "GPD4303S", "GPD3303S"
\* and "GPD2303S"
ModelName(n) == <<"G", "P", "D", n, "3", "0", "3", "S">>

\* the identification line of a GPD-3303S
ScenarioIdentification ==
    <<"G", "W", " ", "I", "N", "S", "T", "E", "K", ",", "G", "P", "D", "-",
      "3", "3", "0", "3", "S", ",", "S", "N", ":", "1", "2", "3", "4", "5",
      "6", "7", "8", ",", "V", "1", ".", "0", "2">>

\* an identification line that spells the model as get_devices does
IdentificationOf(model) ==
    <<"G", "W", " ", "I", "N", "S", "T", "E", "K", ",">> \o model
        \o <<",", "S", "N", ":", "1", ",", "V", "1">>

\* a well-formed identification line of another make
OtherMake ==
    <<"A", "C", "M", "E", ",", "P", "S", "U", "-", "1", ",", "S", "N", ":",
      "7", ",", "V", "2">>

\* the lines read in answer to "*IDN?": the above, the empty line of a read
\* that timed out, and None
Identifications ==
    {ScenarioIdentification, OtherMake, <<>>, NoLine}
        \cup {IdentificationOf(ModelName(n)) : n \in {"2", "3", "4"}}

\* the lines read in answer to "STATUS?": seven binary digits, the empty
\* line, and None
Statuses == [1..7 -> {"0", "1"}] \cup {<<>>, NoLine}

\* no object: what a failed construction leaves the caller with; "unset" is
\* an attribute that no statement has assigned
NoObject ==
    [by |-> "nobody", class |-> "none", passed |-> NoLine, idn |-> NoLine, status |-> NoLine,
     result |-> "ok", sent |-> <<>>,
     manufacturer |-> <<>>, model |-> <<>>, serial |-> <<>>, version |-> <<>>,
     tracking |-> "unset", beep |-> "unset", output |-> "unset", channels |-> {}]

\* the construction failed with an exception
Failed(o, message) == [NoObject EXCEPT !.result = message, !.sent = o.sent]

\* GPDX303S.__status, gpd 164-180: the match has no default case, and the
\* output digit is not read
GpdStatus(o, line) ==
    LET q == [o EXCEPT !.sent = Append(@, "STATUS?")]
    IN  IF line = NoLine THEN Failed(q, "Did not receive response from Supply")
        ELSE IF Len(line) < 2 THEN Failed(q, "IndexError")
        ELSE IF IntOfDigit(line[1]) = None \/ IntOfDigit(line[2]) = None THEN Failed(q, "ValueError")
        ELSE IF Len(line) < 5 THEN Failed(q, "IndexError")
        ELSE IF IntOfDigit(line[5]) = None THEN Failed(q, "ValueError")
        ELSE [q EXCEPT !.tracking = CASE Cut(line, 2, 4) = <<"0", "1">> -> Independent
                                      [] Cut(line, 2, 4) = <<"1", "1">> -> Series
                                      [] Cut(line, 2, 4) = <<"1", "0">> -> Parallel
                                      [] OTHER -> @,
                       !.beep = IF IntOfDigit(line[5]) # 0 THEN "True" ELSE "False"]

\* channel_1 and channel_2 of GPDX303S (gpd 110-128), channel_3 and
\* channel_4 of GPD4303S (gpd 257-276)
ChannelsOf(class) == IF class = "GPD4303S" THEN 1..4 ELSE 1..2

\* GPDX303S.__init__(port, response), gpd 136-151; passed is the response
\* argument (None by default), idn and status the lines the instrument
\* sends; a missing field ends in IndexError
GpdInit(class, passed, idn, status) ==
    LET o == [NoObject EXCEPT !.class = class, !.channels = ChannelsOf(class),
                              !.sent = IF passed = NoLine THEN <<"*IDN?">> ELSE <<>>]
        line == IF passed = NoLine THEN idn ELSE passed
        items == Split(line, ",")
    IN  IF line = NoLine THEN Failed(o, "Did not receive response from Supply")
        ELSE IF Len(items) < 3 \/ Len(Split(items[3], ":")) < 2 \/ Len(items) < 4
             THEN Failed(o, "IndexError")
        ELSE GpdStatus([o EXCEPT !.manufacturer = Strip(items[1]),
                                 !.model = Strip(items[2]),
                                 !.serial = Strip(Split(items[3], ":")[2]),
                                 !.version = Strip(items[4])], status)

\* instek.types.State, imported by src/instek/__init__.py (line 11) and not
\* part of the sources: digits 2-3 are the tracking mode, digit 4 the beep,
\* digit 5 the output
StateOf(o, line) ==
    LET q == [o EXCEPT !.sent = Append(@, "STATUS?")]
    IN  IF line = NoLine \/ Len(line) < 6 THEN Failed(q, "Either this is not a Supply")
        ELSE IF Cut(line, 2, 4) \notin {<<"0", "1">>, <<"1", "1">>, <<"1", "0">>}
             THEN Failed(q, "Either this is not a Supply")
        ELSE [q EXCEPT !.tracking = CASE Cut(line, 2, 4) = <<"0", "1">> -> Independent
                                      [] Cut(line, 2, 4) = <<"1", "1">> -> Series
                                      [] Cut(line, 2, 4) = <<"1", "0">> -> Parallel,
                       !.beep = IF line[5] = "1" THEN On ELSE Off,
                       !.output = IF line[6] = "1" THEN On ELSE Off]

\* __test(port), gpd 285-295: success, and the line read
Test(idn) == idn # NoLine /\ IsIn(Instek, Lower(idn))

\* the outcome o of a construction by the named caller, filed with the lines
\* that went into it
Built(by, o, passed, idn, status) ==
    /\ built' = [o EXCEPT !.by = by, !.passed = passed, !.idn = idn, !.status = status]
    /\ UNCHANGED <<cache, op, args, sent, result, pre, gpd, response, returned, calc, port, pc>>

\* nothing has been constructed yet
InitConstruct ==
    /\ built = NoObject
    /\ tracking = Independent
    /\ output = Off
    /\ beep = Off
    /\ channel_1_voltage = Voltage(0)
    /\ channel_2_voltage = Voltage(0)
    /\ channel_1_current = Current(0)
    /\ channel_2_current = Current(0)
    /\ op = "idle"
    /\ args = <<>>
    /\ sent = <<>>
    /\ result = "ok"
    /\ pre = "None"
    /\ gpd = "None"
    /\ response = <<>>
    /\ returned = "None"
    /\ calc = "None"
    /\ NoExchange

\* Supply(port_name): Supply.__init__, lines 105-135; every exception ends
\* in the same one
ConstructSupply ==
    built = NoObject /\ \E idn \in Identifications, status \in Statuses :
        Built("Supply",
              LET o == [NoObject EXCEPT !.class = "Supply", !.channels = 1..2, !.sent = <<"*IDN?">>]
                  items == Split(idn, ",")
              IN  IF idn = NoLine \/ ~IsIn(Instek, Lower(idn))
                  THEN Failed(o, "Either this is not a Supply")
                  ELSE IF Len(items) < 3 \/ Len(Split(items[3], ":")) < 2 \/ Len(items) < 4
                  THEN Failed(o, "Either this is not a Supply")
                  ELSE StateOf([o EXCEPT !.manufacturer = items[1],
                                         !.model = items[2],
                                         !.serial = Split(items[3], ":")[2],
                                         !.version = IF items[4] = <<>> THEN <<>> ELSE Tail(items[4])],
                               status),
              NoLine, idn, status)

\* GPD2303S(port), GPD3303S(port) or GPD4303S(port), where the constructor
\* asks for the identification, and GPD3303S(port, response), where the
\* caller passes it in
ConstructGpd ==
    built = NoObject /\ \E class \in {"GPD2303S", "GPD3303S", "GPD4303S"},
                           passed \in Identifications, idn \in Identifications, status \in Statuses :
        /\ passed # NoLine => (idn = NoLine /\ class = "GPD3303S")
        /\ Built("GPDX303S", GpdInit(class, passed, idn, status), passed, idn, status)

\* get_devices() with one port, gpd 298-320: the device appended, if any; an
\* exception of the constructor is swallowed (gpd 318-319)
GetDevices ==
    built = NoObject /\ \E idn \in Identifications, status \in Statuses :
        Built("get_devices",
              LET class == CASE ~Test(idn) -> "none"
                             [] IsIn(ModelName("4"), idn) -> "GPD4303S"
                             [] IsIn(ModelName("3"), idn) -> "GPD3303S"
                             [] IsIn(ModelName("2"), idn) -> "GPD2303S"
                             [] OTHER -> "none"
                  o == IF class = "none" THEN NoObject ELSE GpdInit(class, idn, idn, status)
              IN  IF o.result # "ok" THEN NoObject ELSE o,
              NoLine, idn, status)

NextConstruct == ConstructSupply \/ ConstructGpd \/ GetDevices

SpecConstruct == InitConstruct /\ [][NextConstruct]_vars

(***************************************************************************)
(* Properties of construction (SpecConstruct).                             *)
(***************************************************************************)
\* a constructor has run (and returned or raised)
Constructing == built.by \in {"Supply", "GPDX303S"}

\* a constructor of the GPDX303S family has run
ConstructingGpd == built.by = "GPDX303S"

\* the identification line the constructor worked on
IdentificationUsed == IF built.passed # NoLine THEN built.passed ELSE built.idn

\* the status line "0101010": independent, beep digit 0, output digit 1
ScenarioStatus == <<"0", "1", "0", "1", "0", "1", "0">>

\* the status line is seven digits
StatusWellFormed == built.status \notin {<<>>, NoLine}

TrackingDigits == Cut(built.status, 2, 4)

\* C14: constructing an instrument from the identification line
\* "GW INSTEK,GPD-3303S,SN:12345678,V1.02" and the status line "0101010"
\* yields manufacturer "GW INSTEK", model "GPD-3303S", serial "12345678",
\* version "1.02", tracking Independent and beep on (the output, which
\* GPDX303S asks the instrument for at every read, is left aside).
C14_ScenarioConstruction ==
    (ConstructingGpd /\ IdentificationUsed = ScenarioIdentification /\ built.status = ScenarioStatus) =>
        /\ built.result = "ok"
        /\ built.manufacturer = <<"G", "W", " ", "I", "N", "S", "T", "E", "K">>
        /\ built.model = <<"G", "P", "D", "-", "3", "3", "0", "3", "S">>
        /\ built.serial = <<"1", "2", "3", "4", "5", "6", "7", "8">>
        /\ built.version = <<"1", ".", "0", "2">>
        /\ built.tracking = Independent
        /\ built.beep = "True"

\* C15: digits 2-3 of the status line give the tracking mode, "01"
\* Independent, "11" Series, "10" Parallel, and with any other pair of
\* digits the construction fails instead of yielding an instrument.
C15_TrackingDigits ==
    (ConstructingGpd /\ StatusWellFormed) =>
        /\ (built.result = "ok" /\ TrackingDigits = <<"0", "1">>) => built.tracking = Independent
        /\ (built.result = "ok" /\ TrackingDigits = <<"1", "1">>) => built.tracking = Series
        /\ (built.result = "ok" /\ TrackingDigits = <<"1", "0">>) => built.tracking = Parallel
        /\ TrackingDigits = <<"0", "0">> => built.result # "ok"

\* C16: construction fails whenever the identification line lacks the
\* manufacturer substring, whether the constructor asked for the line or
\* the caller passed it in.
C16_ManufacturerRequired ==
    (Constructing /\ IdentificationUsed # NoLine /\ ~IsIn(Instek, Lower(IdentificationUsed))) =>
        built.result # "ok"

\* the model field of the identification line get_devices was given
ModelNamed == Strip(Split(built.idn, ",")[2])

\* C17: for an identification line that get_devices accepts, one variant is
\* selected by the model it names: GPD-4303S the four-channel class,
\* GPD-3303S and GPD-2303S their own classes; channels 3 and 4 are there on
\* the four-channel class only.
C17_ModelDispatch ==
    (built.by = "get_devices" /\ StatusWellFormed /\ Test(built.idn)
        /\ Len(Split(built.idn, ",")) = 4) =>
        /\ ModelNamed \in {<<"G", "P", "D", "-", "4", "3", "0", "3", "S">>, <<"G", "P", "D", "4", "3", "0", "3", "S">>} =>
               built.class = "GPD4303S" /\ built.channels = 1..4
        /\ ModelNamed \in {<<"G", "P", "D", "-", "3", "3", "0", "3", "S">>, <<"G", "P", "D", "3", "3", "0", "3", "S">>} =>
               built.class = "GPD3303S" /\ built.channels = 1..2
        /\ ModelNamed \in {<<"G", "P", "D", "-", "2", "3", "0", "3", "S">>, <<"G", "P", "D", "2", "3", "0", "3", "S">>} =>
               built.class = "GPD2303S" /\ built.channels = 1..2

(***************************************************************************)
(* The serial port.  __communicate (gpd 153-162, Supply 149-159) is taken  *)
(* one call on the port at a time: pc is the place of the caller in it     *)
(* ("open", "write", "read", "close"), "idle" when no operation is under   *)
(* way and "returned" when an operation has come back to its caller.  port *)
(* is the Serial object: is_open, and the calls made on it by the          *)
(* operation under way.  open() may leave the port closed, write() may     *)
(* raise (it is outside the try of lines 157-160), readline() may raise    *)
(* and then the response is None.                                          *)
(***************************************************************************)
\* where an operation stands once replies have come back, and the exception
\* it raises there, if any.  GPDX303S.__init__(port, passed), gpd 136-151:
\* the identification is asked for unless passed, taken apart (IndexError
\* for a line without the four items), then the status is asked for (int()
\* raises ValueError for what is no digit).  GPDX303S.channel_n = (voltage,
\* current), gpd 205-225: VSET, then ISET, each given up on None (TypeError)
\* and on an error line.
Proceed(name, as, replies) ==
    LET n == Len(replies)
        on(place) == [pc |-> place, result |-> "ok"]
        raise(message) == [pc |-> "returned", result |-> message]
        after(reply, then) ==
            CASE reply.kind = NoResponse -> raise(IF name = "__init__" THEN "Did not receive response from Supply" ELSE "TypeError")
              [] reply.kind = "Data out of range" -> raise(IF name = "__init__" THEN "IndexError" ELSE "is out of range")
              [] reply.kind = "garbled" /\ name = "__init__" -> raise(IF n = 1 /\ as[1] = "None" THEN "IndexError" ELSE "ValueError")
              [] OTHER -> then
    IN  IF name = "__init__"
        THEN CASE as[1] = "garbled" -> raise("IndexError")
               [] as[1] = "line" -> IF n = 0 THEN on("open") ELSE after(replies[1], on("returned"))
               [] OTHER -> CASE n = 0 -> on("open")
                             [] n = 1 -> after(replies[1], on("open"))
                             [] OTHER -> after(replies[2], on("returned"))
        ELSE CASE n = 0 -> on("open")
               [] n = 1 -> after(replies[1], on("open"))
               [] OTHER -> after(replies[2], on("returned"))

\* what the operations on the port leave alone
InitPort ==
    /\ NoExchange
    /\ op = "idle"
    /\ args = <<>>
    /\ sent = <<>>
    /\ response = <<>>
    /\ result = "ok"
    /\ tracking = Independent
    /\ output = Off
    /\ beep = Off
    /\ channel_1_voltage = Voltage(0)
    /\ channel_2_voltage = Voltage(0)
    /\ channel_1_current = Current(0)
    /\ channel_2_current = Current(0)
    /\ pre = "None"
    /\ gpd = "None"
    /\ returned = "None"
    /\ built = "None"
    /\ calc = "None"

\* an operation is called on a port that is open or not
Begin(name, as, isOpen) ==
    /\ op' = name
    /\ args' = as
    /\ sent' = <<>>
    /\ response' = <<>>
    /\ port' = [is_open |-> isOpen, calls |-> <<>>]
    /\ pc' = Proceed(name, as, <<>>).pc
    /\ result' = Proceed(name, as, <<>>).result
    /\ UNCHANGED <<cache, pre, gpd, returned, built, calc>>

\* GPD3303S(port) and GPD3303S(port, response), gpd 136-151: the caller
\* hands in a Serial object, open (as Serial(port=...) makes it) or closed
\* (as __test leaves it, gpd 289)
PortInit ==
    op = "idle" /\ \E passed \in {"None", "line", "garbled"}, isOpen \in BOOLEAN :
        Begin("__init__", <<passed>>, isOpen)

\* GPDX303S.channel_1 = (Volts(30), Amps(3)) and the like, gpd 114-128, on
\* the port as the operation before left it
PortChannelSetter ==
    op = "idle" /\ \E channel \in {1, 2} :
        Begin("channel", <<channel, Voltage(30), Current(3)>>, port.is_open)

\* gpd 154-155 (Supply 150-152): open() has opened the port, or the port was
\* open already and the loop is passed by
Open ==
    /\ pc = "open"
    /\ port' = IF port.is_open THEN port
               ELSE [is_open |-> TRUE, calls |-> Append(port.calls, "open")]
    /\ pc' = "write"
    /\ UNCHANGED <<sent, response, result>>
    /\ UNCHANGED <<cache, op, args, pre, gpd, returned, built, calc>>

\* gpd 154-155: open() has come back and is_open is still False
OpenRetry ==
    /\ pc = "open"
    /\ ~port.is_open
    /\ Len(port.calls) < MaxCalls
    /\ port' = [port EXCEPT !.calls = Append(@, "open")]
    /\ UNCHANGED <<pc, sent, response, result>>
    /\ UNCHANGED <<cache, op, args, pre, gpd, returned, built, calc>>

\* gpd 156 (Supply 153): the command of the exchange the operation is in is
\* written, or write raises and the exception leaves __communicate and the
\* operation
Write ==
    /\ pc = "write"
    /\ port' = [port EXCEPT !.calls = Append(@, "write")]
    /\ \E raised \in BOOLEAN :
          LET command ==
                  IF op = "__init__"
                  THEN IF args[1] = "None" /\ response = <<>> THEN Cmd("*IDN?", 0, 0) ELSE Cmd("STATUS?", 0, 0)
                  ELSE IF response = <<>> THEN Cmd("VSET", args[1], args[2]) ELSE Cmd("ISET", args[1], args[3])
          IN  IF raised
              THEN pc' = "returned" /\ result' = "SerialException" /\ UNCHANGED sent
              ELSE pc' = "read" /\ result' = result /\ sent' = Append(sent, command)
    /\ UNCHANGED response
    /\ UNCHANGED <<cache, op, args, pre, gpd, returned, built, calc>>

\* gpd 157-160 (Supply 154-157): a line is read, None if reading raised; the
\* line is what the operation expects, or is not, or is an error line
Read ==
    /\ pc = "read"
    /\ port' = [port EXCEPT !.calls = Append(@, "readline")]
    /\ \E kind \in {NoResponse, "line", "garbled", "Data out of range"} :
          response' = Append(response, Reply(kind, 0, ""))
    /\ pc' = "close"
    /\ UNCHANGED <<sent, result>>
    /\ UNCHANGED <<cache, op, args, pre, gpd, returned, built, calc>>

\* gpd 161-162 (Supply 158-159): the port is closed, __communicate returns
\* and the operation goes on
Close ==
    /\ pc = "close"
    /\ port' = [is_open |-> FALSE, calls |-> Append(port.calls, "close")]
    /\ pc' = Proceed(op, args, response).pc
    /\ result' = Proceed(op, args, response).result
    /\ UNCHANGED <<sent, response>>
    /\ UNCHANGED <<cache, op, args, pre, gpd, returned, built, calc>>

\* the caller takes note of the outcome; the port stays as the operation
\* left it
PortReturn ==
    /\ pc = "returned"
    /\ op' = "idle"
    /\ pc' = "idle"
    /\ args' = <<>>
    /\ sent' = <<>>
    /\ response' = <<>>
    /\ result' = "ok"
    /\ port' = [port EXCEPT !.calls = <<>>]
    /\ UNCHANGED <<cache, pre, gpd, returned, built, calc>>

NextPort ==
    \/ PortInit \/ PortChannelSetter
    \/ Open \/ OpenRetry \/ Write \/ Read \/ Close
    \/ PortReturn

SpecPort == InitPort /\ [][NextPort]_vars

\* a call that has begun goes on, and open() does open the port in the end
FairSpecPort ==
    /\ SpecPort
    /\ WF_vars(Open) /\ WF_vars(Write) /\ WF_vars(Read) /\ WF_vars(Close)

(***************************************************************************)
(* Properties of the serial port (SpecPort, FairSpecPort).                 *)
(***************************************************************************)
\* no exchange is under way: before a call, and once an operation or a
\* construction has come back, normally or with an exception
Outside == pc \in {"idle", "returned"}

\* the calls made on the port so far are exchanges one after the other:
\* open (again and again until the port is open), one write, one readline,
\* close; the last exchange may still be under way, and the first has no
\* open when the caller handed in an open port
InOrder ==
    \A i \in 1..Len(port.calls) :
        /\ port.calls[i] = "write" => (i = 1 \/ port.calls[i - 1] = "open")
        /\ port.calls[i] = "readline" => (i > 1 /\ port.calls[i - 1] = "write")
        /\ port.calls[i] = "close" => (i > 1 /\ port.calls[i - 1] = "readline")
        /\ port.calls[i] = "open" => (i = 1 \/ port.calls[i - 1] \in {"open", "close"})

\* C26: the port is open only inside an exchange: it is closed when no
\* operation is under way, when an operation or a construction has come
\* back (normally or with an exception) and between two exchanges of an
\* operation; and the calls on it are open, one write, one readline,
\* close, in that order, exchange after exchange.
C26_PortHeldPerExchange ==
    /\ Outside => ~port.is_open
    /\ (pc = "open" /\ response # <<>>) => ~port.is_open
    /\ InOrder

\* an operation has come back with every exchange it began carried through:
\* the last calls on the port are write, readline, close
Completed ==
    port.calls # <<>> =>
        /\ Len(port.calls) >= 3
        /\ SubSeq(port.calls, Len(port.calls) - 2, Len(port.calls)) = <<"write", "readline", "close">>

\* no command was written twice
NoResend == \A i \in 1..Len(sent) : \A j \in 1..Len(sent) : sent[i] = sent[j] => i = j

\* C27: an exchange tries to open the port until it is open and then is
\* carried through (write, readline, close); given that the port does open
\* in the end, an operation that has begun an exchange comes back; and no
\* command is written a second time.
C27_ExchangeCompletes ==
    /\ [](pc = "returned" => (Completed /\ NoResend))
    /\ (pc = "open" ~> pc = "returned")

(***************************************************************************)
(* Unit algebra (types/__init__.py).  The value of a quantity is kept      *)
(* exact: the r-th root of n / d, in lowest terms.                         *)
(***************************************************************************)
\* the largest magnitude of an operand
MaxMagnitude == 3

Units == {"Volts", "Amps", "Ohms", "Watts"}

RECURSIVE Gcd(_, _)
Gcd(a, b) == IF b = 0 THEN a ELSE Gcd(b, a % b)

\* the quantity Unit(value) for the value (n / d) ^ (1 / r); r is 2 for the
\* sqrt(...) of types 129, 143 and 154, taken when n and d are squares
Quantity(unit, n, d, r) ==
    LET g == Gcd(n, d)
        p == n \div g
        q == d \div g
        square(x) == \E k \in 0..x : k * k = x
        root(x) == CHOOSE k \in 0..x : k * k = x
    IN  IF r = 2 /\ square(p) /\ square(q)
        THEN [unit |-> unit, n |-> root(p), d |-> root(q), r |-> 1]
        ELSE [unit |-> unit, n |-> p, d |-> q, r |-> r]

\* __throw_error, types 84-87, and the TypeError Python raises for an
\* operator between a number and a string
TypeError == [unit |-> "TypeError", n |-> 0, d |-> 1, r |-> 1]

\* self.__class__(other).__value, UnitBase.__init__ (types 20-23): a number
\* is kept as it is; a quantity is none of Decimal, int, str, float and is
\* kept as str(other), the text of its value (field r is 0 for a text, n the
\* number its digits spell)
Value(other) ==
    IF other.unit = "int" THEN other ELSE [unit |-> "str", n |-> other.n, d |-> 1, r |-> 0]

\* UnitBase.__mul__, types 74-75; number * text in Python is the text
\* repeated: a.n times the digit of b
BaseMul(a, b) ==
    IF Value(b).unit = "str"
    THEN [unit |-> a.unit, n |-> Value(b).n * ((10 ^ a.n - 1) \div 9), d |-> 1, r |-> 0]
    ELSE Quantity(a.unit, a.n * Value(b).n, a.d, 1)

\* UnitBase.__truediv__, types 77-78
BaseTrueDiv(a, b) ==
    IF Value(b).unit = "str" THEN TypeError ELSE Quantity(a.unit, a.n, a.d * Value(b).n, 1)

\* a * b: Volts.__mul__ (types 91-96), Amps.__mul__ (109-116), Ohms.__mul__
\* (125-132), Watts.__mul__ (141-146); the last case of each is
\* UnitBase.__mul__ (74-75)
Mul(a, b) ==
    CASE a.unit = "Volts" ->
            CASE b.unit = "Amps" -> Quantity("Watts", a.n * b.n, a.d * b.d, 1)
              [] b.unit \in {"Ohms", "Watts"} -> TypeError
              [] OTHER -> BaseMul(a, b)
      [] a.unit = "Amps" ->
            CASE b.unit = "Ohms" -> Quantity("Volts", a.n * b.n, a.d * b.d, 1)
              [] b.unit = "Volts" -> Quantity("Watts", a.n * b.n, a.d * b.d, 1)
              [] b.unit = "Watts" -> TypeError
              [] OTHER -> BaseMul(a, b)
      [] a.unit = "Ohms" ->
            CASE b.unit = "Amps" -> Quantity("Volts", a.n * b.n, a.d * b.d, 1)
              [] b.unit = "Watts" -> Quantity("Volts", a.n * b.d, a.d * b.n, 2)
              [] b.unit = "Volts" -> TypeError
              [] OTHER -> BaseMul(a, b)
      [] a.unit = "Watts" ->
            CASE b.unit = "Ohms" -> Quantity("Volts", a.n * b.n, a.d * b.d, 2)
              [] b.unit \in {"Volts", "Amps"} -> TypeError
              [] OTHER -> BaseMul(a, b)

\* a / b: Volts.__truediv__ (types 98-105), Amps.__truediv__ (118-121),
\* Ohms.__truediv__ (134-137), Watts.__truediv__ (148-155); the last case of
\* each is UnitBase.__truediv__ (77-78)
TrueDiv(a, b) ==
    CASE a.unit = "Volts" ->
            CASE b.unit = "Amps" -> Quantity("Ohms", a.n * b.d, a.d * b.n, 1)
              [] b.unit = "Ohms" -> Quantity("Amps", a.n * b.d, a.d * b.n, 1)
              [] b.unit = "Watts" -> Quantity("Ohms", a.n * a.n * b.d, a.d * a.d * b.n, 1)
              [] OTHER -> BaseTrueDiv(a, b)
      [] a.unit = "Amps" ->
            IF b.unit \in {"Volts", "Ohms", "Watts"} THEN TypeError
            ELSE BaseTrueDiv(a, b)
      [] a.unit = "Ohms" ->
            IF b.unit \in {"Watts", "Volts", "Amps"} THEN TypeError
            ELSE BaseTrueDiv(a, b)
      [] a.unit = "Watts" ->
            CASE b.unit = "Volts" -> Quantity("Amps", a.n * b.d, a.d * b.n, 1)
              [] b.unit = "Amps" -> Quantity("Volts", a.n * b.d, a.d * b.n, 1)
              [] b.unit = "Ohms" -> Quantity("Amps", a.n * b.d, a.d * b.n, 2)
              [] OTHER -> BaseTrueDiv(a, b)

\* the operands: Volts(1) .. Watts(MaxMagnitude)
Operands == {Quantity(u, m, 1, 1) : u \in Units, m \in 1..MaxMagnitude}

NoCalculation == [operation |-> "none", a |-> TypeError, b |-> TypeError, out |-> TypeError]

InitUnits ==
    /\ calc = NoCalculation
    /\ tracking = Independent
    /\ output = Off
    /\ beep = Off
    /\ channel_1_voltage = Voltage(0)
    /\ channel_2_voltage = Voltage(0)
    /\ channel_1_current = Current(0)
    /\ channel_2_current = Current(0)
    /\ op = "idle"
    /\ args = <<>>
    /\ sent = <<>>
    /\ result = "ok"
    /\ pre = "None"
    /\ gpd = "None"
    /\ response = <<>>
    /\ returned = "None"
    /\ built = "None"
    /\ NoExchange

Multiply ==
    /\ calc = NoCalculation
    /\ \E a \in Operands, b \in Operands :
          calc' = [operation |-> "*", a |-> a, b |-> b, out |-> Mul(a, b)]
    /\ UNCHANGED <<cache, op, args, sent, result, pre, gpd, response, returned, built, port, pc>>

Divide ==
    /\ calc = NoCalculation
    /\ \E a \in Operands, b \in Operands :
          calc' = [operation |-> "/", a |-> a, b |-> b, out |-> TrueDiv(a, b)]
    /\ UNCHANGED <<cache, op, args, sent, result, pre, gpd, response, returned, built, port, pc>>

\* the bare numbers handed to an operator in place of a quantity
Numbers == {[unit |-> "int", n |-> m, d |-> 1, r |-> 1] : m \in 1..MaxMagnitude}

\* True / False returned by a comparison
Bool(b) == [unit |-> "bool", n |-> IF b THEN 1 ELSE 0, d |-> 1, r |-> 1]

\* a == b, a > b, a < b: UnitBase.__eq__, __gt__, __lt__ (types 49-62); a
\* number never equals a text and is not ordered with one
Compare ==
    /\ calc = NoCalculation
    /\ \E relation \in {"==", ">", "<"}, a \in Operands, b \in Operands \cup Numbers :
          LET other == Value(b)
              out == IF b.unit \notin {"int", a.unit} THEN TypeError
                     ELSE IF other.unit = "str"
                          THEN IF relation = "==" THEN Bool(FALSE) ELSE TypeError
                          ELSE CASE relation = "==" -> Bool(a.n = other.n)
                                 [] relation = ">" -> Bool(a.n > other.n)
                                 [] relation = "<" -> Bool(a.n < other.n)
          IN  calc' = [operation |-> relation, a |-> a, b |-> b, out |-> out]
    /\ UNCHANGED <<cache, op, args, sent, result, pre, gpd, response, returned, built, port, pc>>

\* a + b, a - b: UnitBase.__add__, __sub__ (types 64-72); a number and a
\* text cannot be added or subtracted
Combine ==
    /\ calc = NoCalculation
    /\ \E operation \in {"+", "-"}, a \in Operands, b \in Operands \cup Numbers :
          LET other == Value(b)
              out == IF b.unit \notin {"int", a.unit} THEN TypeError
                     ELSE IF other.unit = "str" THEN TypeError
                     ELSE [unit |-> a.unit,
                           n |-> IF operation = "+" THEN a.n + other.n ELSE a.n - other.n,
                           d |-> 1, r |-> 1]
          IN  calc' = [operation |-> operation, a |-> a, b |-> b, out |-> out]
    /\ UNCHANGED <<cache, op, args, sent, result, pre, gpd, response, returned, built, port, pc>>

NextUnits == Multiply \/ Divide \/ Compare \/ Combine

SpecUnits == InitUnits /\ [][NextUnits]_vars

(***************************************************************************)
(* Properties of the unit algebra (SpecUnits).                             *)
(***************************************************************************)
\* the operation, the two units and the unit of the result of the products
\* and quotients of different dimensions that are defined
DimensionTable ==
    {<<"*", "Volts", "Amps", "Watts">>, <<"*", "Amps", "Volts", "Watts">>,
     <<"/", "Watts", "Volts", "Amps">>, <<"/", "Watts", "Amps", "Volts">>,
     <<"/", "Volts", "Amps", "Ohms">>, <<"/", "Volts", "Ohms", "Amps">>,
     <<"*", "Ohms", "Amps", "Volts">>, <<"*", "Amps", "Ohms", "Volts">>}

\* a product or quotient of two quantities of different dimensions was taken
CrossDimension == calc.operation \in {"*", "/"} /\ calc.a.unit # calc.b.unit

\* C20: a product or quotient of quantities of different dimensions succeeds
\* exactly for V*A = W, A*V = W, W/V = A, W/A = V, V/A = Ohm, V/Ohm = A,
\* Ohm*A = V and A*Ohm = V, with the result in the unit named; every other
\* one (V/W, Ohm*W, W*Ohm, W/Ohm among them) fails with a type error.
C20_DimensionTable ==
    CrossDimension =>
        IF \E u \in Units : <<calc.operation, calc.a.unit, calc.b.unit, u>> \in DimensionTable
        THEN <<calc.operation, calc.a.unit, calc.b.unit, calc.out.unit>> \in DimensionTable
        ELSE calc.out = TypeError

\* a comparison, sum or difference was taken
Related == calc.operation \in {"==", ">", "<", "+", "-"}

\* the outcome on the underlying numeric values
Numeric ==
    CASE calc.operation = "==" -> Bool(calc.a.n = calc.b.n)
      [] calc.operation = ">" -> Bool(calc.a.n > calc.b.n)
      [] calc.operation = "<" -> Bool(calc.a.n < calc.b.n)
      [] calc.operation = "+" -> [unit |-> calc.a.unit, n |-> calc.a.n + calc.b.n, d |-> 1, r |-> 1]
      [] calc.operation = "-" -> [unit |-> calc.a.unit, n |-> calc.a.n - calc.b.n, d |-> 1, r |-> 1]

\* C21: ==, >, <, + and - between quantities of different dimensions fail
\* with a type error; between quantities of the same dimension, or a
\* quantity and a bare number, they compare or combine the numeric values.
C21_ComparisonsAndSums ==
    Related =>
        IF calc.b.unit \notin {"int", calc.a.unit}
        THEN calc.out = TypeError
        ELSE calc.out = Numeric

====
